---- MODULE Spec2Model ----
(***************************************************************************)
(* Model of the metadata extraction service:                               *)
(*   - src/app/api/metadata/route.ts : the POST handler (validation,       *)
(*     fetch, auxiliary tag collection, URL resolution, result assembly);  *)
(*   - src/unnamed/part_000          : the form component's handleSubmit.  *)
(*                                                                         *)
(* A JavaScript string is a sequence of tokens.  The tokens are cut where  *)
(* the code and the URL parser look: "http", "og:", "twitter:" are tokens  *)
(* of their own (so startsWith is a test of the first token), and ":",     *)
(* "//", "/" and " " are the separators of the URL grammar and of trim().  *)
(* The empty string is <<>>.                                               *)
(***************************************************************************)
EXTENDS Integers, Sequences, FiniteSets, TLC

MaxTags == 2
MaxTime == 1
MaxInFlight == 2

VARIABLES pc, body, fetchCalls, fetched, scraped, now, reply,
          url, loading, result, error, pending

routeVars == <<pc, body, fetchCalls, fetched, scraped, now, reply>>
formVars == <<url, loading, result, error, pending>>
vars == <<pc, body, fetchCalls, fetched, scraped, now, reply,
          url, loading, result, error, pending>>

----------------------------------------------------------------------------
(* Strings and JSON values *)

StartsWith(s, p) == Len(s) >= 1 /\ s[1] = p

Truthy(s) == s # <<>>

Str(s) == [kind |-> "str", s |-> s, l |-> <<>>]

List(l) == [kind |-> "list", s |-> <<>>, l |-> l]

Undefined == <<>>

Some(s) == <<s>>

TruthyOpt(o) == o # Undefined /\ Truthy(o[1])

OrElse(a, b) == IF TruthyOpt(a) THEN a ELSE b

EmptyObject == [k \in {} |-> Str(<<>>)]

Null == [isNull |-> TRUE, data |-> EmptyObject]

Data(d) == [isNull |-> FALSE, data |-> d]

----------------------------------------------------------------------------
(* The URL class: new URL(input), new URL(input, base), .href              *)
(* Hosts and path segments are opaque tokens; no token is "." or "..",     *)
(* and every host token is a valid host name.                              *)

NoUrl == [ok |-> FALSE, scheme |-> <<>>, host |-> <<>>, path |-> <<>>]

MkUrl(sch, h, p) == [ok |-> TRUE, scheme |-> sch, host |-> h, path |-> p]

IsSpecial(sch) == sch \in {<<"http">>, <<"http", "s">>}

IndexOf(s, tok) ==
  IF \E i \in 1..Len(s) : s[i] = tok
  THEN CHOOSE i \in 1..Len(s) : s[i] = tok /\ \A j \in 1..(i - 1) : s[j] # tok
  ELSE 0

SchemeEnd(s) ==
  LET i == IndexOf(s, ":")
  IN IF i > 1 /\ \A j \in 1..(i - 1) : s[j] \notin {"/", "//", " "}
     THEN i ELSE 0

RECURSIVE SkipSlashes(_)
SkipSlashes(s) ==
  IF s # <<>> /\ s[1] \in {"/", "//"} THEN SkipSlashes(Tail(s)) ELSE s

Authority(sch, after) ==
  LET h == IF after # <<>> /\ after[1] # "/" THEN after[1] ELSE ""
      p == IF h = "" THEN after ELSE Tail(after)
  IN IF IsSpecial(sch) /\ h = ""
     THEN NoUrl
     ELSE MkUrl(sch, <<h>>, IF IsSpecial(sch) /\ p = <<>> THEN <<"/">> ELSE p)

Opaque(u) == u.host = <<>> /\ ~StartsWith(u.path, "/")

DirOf(p) ==
  LET idx == {i \in 1..Len(p) : p[i] = "/"}
  IN IF idx = {} THEN <<>>
     ELSE SubSeq(p, 1, CHOOSE i \in idx : \A j \in idx : j <= i)

Relative(s, base) ==
  IF s = <<>> THEN base
  ELSE IF s[1] = "//"
       THEN Authority(base.scheme,
                      IF IsSpecial(base.scheme) THEN SkipSlashes(Tail(s))
                      ELSE Tail(s))
  ELSE IF s[1] = "/" THEN MkUrl(base.scheme, base.host, s)
  ELSE MkUrl(base.scheme, base.host, DirOf(base.path) \o s)

BasicParse(s, base, hasBase) ==
  LET i == SchemeEnd(s)
  IN IF i > 0
     THEN LET sch == SubSeq(s, 1, i - 1)
              rest == SubSeq(s, i + 1, Len(s))
          IN IF IsSpecial(sch)
             THEN IF hasBase /\ base.scheme = sch /\ ~StartsWith(rest, "//")
                  THEN Relative(rest, base)
                  ELSE Authority(sch, SkipSlashes(rest))
             ELSE IF StartsWith(rest, "//")
                  THEN Authority(sch, Tail(rest))
                  ELSE MkUrl(sch, <<>>, rest)
     ELSE IF ~hasBase \/ Opaque(base) THEN NoUrl
     ELSE Relative(s, base)

NewURL(s) == BasicParse(s, NoUrl, FALSE)

NewURLWithBase(s, b) ==
  LET bu == NewURL(b)
  IN IF bu.ok THEN BasicParse(s, bu, TRUE) ELSE NoUrl

Href(u) ==
  u.scheme \o <<":">>
  \o (IF u.host = <<>> THEN <<>>
      ELSE <<"//">> \o (IF u.host = <<"">> THEN <<>> ELSE u.host))
  \o u.path

isValidUrl(string) == NewURL(string).ok

----------------------------------------------------------------------------
(* The document tree: the elements of the parsed page in document order.   *)
(* An element is a tag name and its attributes; an attribute the element   *)
(* does not carry is outside DOMAIN attrs (cheerio's .attr gives undefined) *)

Elem(tag, attrs) == [tag |-> tag, attrs |-> attrs]

Has(e, a) == a \in DOMAIN e.attrs

AttrOfFirst(sel, a) ==
  IF sel # <<>> /\ Has(sel[1], a) THEN Some(sel[1].attrs[a]) ELSE Undefined

IsOgMeta(e) ==
  e.tag = "meta" /\ Has(e, "property") /\ StartsWith(e.attrs["property"], "og:")

IsTwitterMeta(e) ==
  e.tag = "meta" /\ Has(e, "name") /\ StartsWith(e.attrs["name"], "twitter:")

IsNamedMeta(e) == e.tag = "meta" /\ Has(e, "name")

IsCanonicalLink(e) ==
  e.tag = "link" /\ Has(e, "rel") /\ e.attrs["rel"] = <<"canonical">>

IsIconLink(e) == e.tag = "link" /\ Has(e, "rel") /\ e.attrs["rel"] = <<"icon">>

IsShortcutIconLink(e) ==
  e.tag = "link" /\ Has(e, "rel") /\ e.attrs["rel"] = <<"shortcut icon">>

IsAppleTouchIconLink(e) ==
  e.tag = "link" /\ Has(e, "rel") /\ e.attrs["rel"] = <<"apple-touch-icon">>

IsHtml(e) == e.tag = "html"

IsContentLanguageMeta(e) ==
  e.tag = "meta" /\ Has(e, "http-equiv")
  /\ e.attrs["http-equiv"] = <<"content-language">>

IsFeedLink(e) ==
  e.tag = "link" /\ Has(e, "type")
  /\ e.attrs["type"] \in {<<"application/rss+xml">>, <<"application/atom+xml">>}

----------------------------------------------------------------------------
(* The auxiliary tag collection of POST *)

RECURSIVE Collect(_, _, _)
Collect(sel, keyAttr, acc) ==
  IF sel = <<>> THEN acc
  ELSE LET e == Head(sel)
           key == AttrOfFirst(<<e>>, keyAttr)
           content == AttrOfFirst(<<e>>, "content")
       IN Collect(Tail(sel), keyAttr,
                  IF TruthyOpt(key) /\ TruthyOpt(content)
                  THEN (key[1] :> Str(content[1])) @@ acc
                  ELSE acc)

MetaTags(html) ==
  Collect(SelectSeq(html, IsNamedMeta), "name",
    Collect(SelectSeq(html, IsTwitterMeta), "name",
      Collect(SelectSeq(html, IsOgMeta), "property", EmptyObject)))

canonical(html) == AttrOfFirst(SelectSeq(html, IsCanonicalLink), "href")

favicon_ShortcutFirst(html) ==
  OrElse(OrElse(AttrOfFirst(SelectSeq(html, IsShortcutIconLink), "href"),
                AttrOfFirst(SelectSeq(html, IsIconLink), "href")),
         AttrOfFirst(SelectSeq(html, IsAppleTouchIconLink), "href"))

favicon(html) ==
  OrElse(OrElse(AttrOfFirst(SelectSeq(html, IsIconLink), "href"),
                AttrOfFirst(SelectSeq(html, IsShortcutIconLink), "href")),
         AttrOfFirst(SelectSeq(html, IsAppleTouchIconLink), "href"))

lang(html) ==
  OrElse(AttrOfFirst(SelectSeq(html, IsHtml), "lang"),
         AttrOfFirst(SelectSeq(html, IsContentLanguageMeta), "content"))

Resolve(href, targetUrl) ==
  IF StartsWith(href, "http") THEN href
  ELSE Href(NewURLWithBase(href, targetUrl))

ResolveThrows(href, targetUrl) ==
  ~StartsWith(href, "http") /\ ~NewURLWithBase(href, targetUrl).ok

RECURSIVE PushFeeds(_, _)
PushFeeds(sel, targetUrl) ==
  IF sel = <<>> THEN <<>>
  ELSE LET href == AttrOfFirst(<<Head(sel)>>, "href")
       IN (IF TruthyOpt(href) THEN <<Resolve(href[1], targetUrl)>> ELSE <<>>)
          \o PushFeeds(Tail(sel), targetUrl)

feeds(html, targetUrl) == PushFeeds(SelectSeq(html, IsFeedLink), targetUrl)

FeedsThrow(html, targetUrl) ==
  \E i \in 1..Len(html) :
     /\ IsFeedLink(html[i])
     /\ TruthyOpt(AttrOfFirst(<<html[i]>>, "href"))
     /\ ResolveThrows(html[i].attrs["href"], targetUrl)

FaviconThrows(html, targetUrl) ==
  TruthyOpt(favicon(html)) /\ ResolveThrows(favicon(html)[1], targetUrl)

additionalMeta(html, targetUrl) ==
  LET m0 == MetaTags(html)
      m1 == IF TruthyOpt(canonical(html))
            THEN (<<"canonical">> :> Str(canonical(html)[1])) @@ m0 ELSE m0
      m2 == IF TruthyOpt(favicon(html))
            THEN (<<"favicon">> :> Str(Resolve(favicon(html)[1], targetUrl))) @@ m1
            ELSE m1
      m3 == IF TruthyOpt(lang(html))
            THEN (<<"language">> :> Str(lang(html)[1])) @@ m2 ELSE m2
      m4 == IF Len(feeds(html, targetUrl)) > 0
            THEN (<<"feeds">> :> List(feeds(html, targetUrl))) @@ m3 ELSE m3
  IN m4

toISOString(t) == <<"2024-01-01T00:00:0", ToString(t), ".000Z">>

CanonicalFields ==
  {<<"title">>, <<"description">>, <<"image">>, <<"logo">>, <<"author">>,
   <<"date">>, <<"publisher">>}

Combine(metadata, html, targetUrl, t) ==
  (<<"extractedAt">> :> Str(toISOString(t)))
  @@ additionalMeta(html, targetUrl)
  @@ [k \in DOMAIN metadata \cap CanonicalFields |-> Str(metadata[k])]
  @@ (<<"url">> :> Str(targetUrl))

ErrorBody(msg) == (<<"error">> :> Str(msg))

Json(b, st) == [status |-> st, body |-> b]

NoReply == Json(EmptyObject, 0)

----------------------------------------------------------------------------
(* The inputs: request bodies, pages, fetch outcomes, extractor outputs.    *)
(* The rule-based extractors are the metascraper library: their output is  *)
(* an input of POST, a value or no value for each canonical field, read    *)
(* from the whole page (title element, structured data, og: tags, ...).    *)

PageUrl == <<"http", "s", ":", "//", "example.com", "/", "page">>

RedirectedUrl ==
  <<"http", "s", ":", "//", "www.example.com", "/", "blog", "/", "post">>

JsonBody(u) == [json |-> TRUE, hasUrl |-> TRUE, url |-> u]

Bodies ==
  { [json |-> FALSE, hasUrl |-> FALSE, url |-> <<>>],
    [json |-> TRUE, hasUrl |-> FALSE, url |-> <<>>],
    JsonBody(<<>>),
    JsonBody(<<"not", " ", "a", " ", "url">>),
    JsonBody(<<"example.com", "/", "page">>),
    JsonBody(<<"mailto", ":", "a@example.com">>),
    JsonBody(PageUrl) }

Meta(attrs) == Elem("meta", attrs)

Link(attrs) == Elem("link", attrs)

Elements ==
  { Elem("html", ("lang" :> <<"en">>)),
    Meta(("property" :> <<"og:", "title">>) @@ ("content" :> <<"A">>)),
    Meta(("name" :> <<"og:", "title">>) @@ ("content" :> <<"B">>)),
    Meta(("property" :> <<"og:", "title">>) @@ ("content" :> <<>>)),
    Meta(("name" :> <<"twitter:", "card">>) @@ ("content" :> <<"summary">>)),
    Meta(("name" :> <<"description">>) @@ ("content" :> <<"B">>)),
    Meta(("name" :> <<"url">>) @@ ("content" :> <<"B">>)),
    Meta(("name" :> <<"favicon">>) @@ ("content" :> <<"f.ico">>)),
    Meta(("name" :> <<"feeds">>) @@ ("content" :> <<"none">>)),
    Meta(("http-equiv" :> <<"content-language">>) @@ ("content" :> <<"de">>)),
    Link(("rel" :> <<"canonical">>) @@ ("href" :> <<"/", "page">>)),
    Link(("rel" :> <<"icon">>)),
    Link(("rel" :> <<"icon">>) @@ ("href" :> <<"/", "favicon.ico">>)),
    Link(("rel" :> <<"icon">>) @@ ("href" :> <<"//">>)),
    Link(("rel" :> <<"shortcut icon">>)
         @@ ("href" :> <<"http", "-icons", "/", "s.ico">>)),
    Link(("rel" :> <<"apple-touch-icon">>)
         @@ ("href" :> <<"http", "s", ":", "//", "cdn.example", "/", "t.png">>)),
    Link(("rel" :> <<"alternate">>) @@ ("type" :> <<"application/rss+xml">>)
         @@ ("href" :> <<"/", "a.xml">>)),
    Link(("rel" :> <<"alternate">>) @@ ("type" :> <<"application/atom+xml">>)
         @@ ("href" :> <<"b.xml">>)),
    Link(("type" :> <<"application/rss+xml">>)
         @@ ("href" :> <<"http", "-feeds", "/", "c.xml">>)) }

Pages == UNION {[1..n -> Elements] : n \in 0..MaxTags}

StatusLines ==
  { [status |-> 200, statusText |-> <<"OK">>],
    [status |-> 404, statusText |-> <<"Not Found">>],
    [status |-> 500, statusText |-> <<"Internal Server Error">>] }

ExtractorOutputs ==
  { EmptyObject,
    (<<"title">> :> <<"T">>) @@ (<<"description">> :> <<"D">>),
    [k \in CanonicalFields |-> <<"M">>] }

NotFetched ==
  [kind |-> "none", status |-> 0, statusText |-> <<>>, url |-> <<>>,
   html |-> <<>>]

----------------------------------------------------------------------------
(* POST /api/metadata *)

Init ==
  /\ pc = "idle"
  /\ body = [json |-> TRUE, hasUrl |-> FALSE, url |-> <<>>]
  /\ fetchCalls = 0
  /\ fetched = NotFetched
  /\ scraped = EmptyObject
  /\ now = 0
  /\ reply = NoReply
  /\ url = <<>>
  /\ loading = FALSE
  /\ result = Null
  /\ error = <<>>
  /\ pending = <<>>

Validate(b) ==
  IF ~b.json THEN Json(ErrorBody(<<"Failed to extract metadata">>), 500)
  ELSE IF ~b.hasUrl \/ ~Truthy(b.url)
       THEN Json(ErrorBody(<<"URL is required">>), 400)
  ELSE IF ~isValidUrl(b.url)
       THEN Json(ErrorBody(<<"Invalid URL format">>), 400)
  ELSE NoReply

POST(b) ==
  /\ pc \in {"idle", "done"}
  /\ body' = b
  /\ fetched' = NotFetched
  /\ scraped' = EmptyObject
  /\ now' = 0
  /\ reply' = Validate(b)
  /\ IF Validate(b) = NoReply
     THEN pc' = "fetching" /\ fetchCalls' = 1
     ELSE pc' = "done" /\ fetchCalls' = 0
  /\ UNCHANGED formVars

FetchRejected ==
  /\ pc = "fetching"
  /\ fetched' = [NotFetched EXCEPT !.kind = "rejected"]
  /\ reply' = Json(ErrorBody(<<"Failed to extract metadata">>), 500)
  /\ pc' = "done"
  /\ UNCHANGED <<body, fetchCalls, scraped, now>>
  /\ UNCHANGED formVars

Respond(response, metadata, t) ==
  IF response.status \notin 200..299
  THEN Json(ErrorBody(<<"Failed to fetch webpage: ", ToString(response.status),
                        " ">> \o response.statusText), 400)
  ELSE IF FaviconThrows(response.html, response.url)
          \/ FeedsThrow(response.html, response.url)
       THEN Json(ErrorBody(<<"Failed to extract metadata">>), 500)
  ELSE Json(Combine(metadata, response.html, response.url, t), 200)

FetchResponded ==
  /\ pc = "fetching"
  /\ IsSpecial(NewURL(body.url).scheme)
  /\ \E line \in StatusLines, finalUrl \in {body.url, RedirectedUrl},
        html \in Pages, metadata \in ExtractorOutputs, t \in 0..MaxTime :
        LET response == [kind |-> "response", status |-> line.status,
                         statusText |-> line.statusText, url |-> finalUrl,
                         html |-> html]
        IN /\ fetched' = response
           /\ reply' = Respond(response, metadata, t)
           /\ scraped' = IF line.status \in 200..299 THEN metadata
                         ELSE EmptyObject
           /\ now' = IF line.status \in 200..299 THEN t ELSE 0
  /\ pc' = "done"
  /\ UNCHANGED <<body, fetchCalls>>
  /\ UNCHANGED formVars

Next ==
  \/ \E b \in Bodies : POST(b)
  \/ FetchRejected
  \/ FetchResponded

Spec == Init /\ [][Next]_vars

----------------------------------------------------------------------------
(* The form component Home: url, loading, result, error are its useState   *)
(* cells; pending holds the trimmed url of every handleSubmit invocation   *)
(* that is suspended at its await.                                         *)

RECURSIVE TrimStart(_)
TrimStart(s) == IF s # <<>> /\ s[1] = " " THEN TrimStart(Tail(s)) ELSE s

RECURSIVE TrimEnd(_)
TrimEnd(s) ==
  IF s # <<>> /\ s[Len(s)] = " " THEN TrimEnd(SubSeq(s, 1, Len(s) - 1)) ELSE s

trim(s) == TrimEnd(TrimStart(s))

FormInputs ==
  { <<>>, <<" ">>, PageUrl, <<" ">> \o PageUrl \o <<" ">>,
    <<"not", " ", "a", " ", "url">> }

Settlements(u) ==
  { [rejected |-> TRUE, ok |-> FALSE, data |-> EmptyObject],
    [rejected |-> FALSE, ok |-> TRUE,
     data |-> (<<"url">> :> Str(u)) @@ (<<"extractedAt">> :> Str(toISOString(0)))],
    [rejected |-> FALSE, ok |-> FALSE,
     data |-> ErrorBody(<<"Invalid URL format">>)],
    [rejected |-> FALSE, ok |-> FALSE, data |-> EmptyObject] }

Message(r) ==
  IF r.rejected THEN <<"Failed to fetch">>
  ELSE IF <<"error">> \in DOMAIN r.data /\ Truthy(r.data[<<"error">>].s)
       THEN r.data[<<"error">>].s
  ELSE <<"Failed to extract metadata">>

onChange(v) ==
  /\ url' = v
  /\ UNCHANGED <<loading, result, error, pending>>
  /\ UNCHANGED routeVars

handleSubmit ==
  /\ IF ~Truthy(trim(url))
     THEN /\ error' = <<"Please enter a URL">>
          /\ UNCHANGED <<loading, result, pending>>
     ELSE /\ Len(pending) < MaxInFlight
          /\ loading' = TRUE
          /\ error' = <<>>
          /\ result' = Null
          /\ pending' = Append(pending, trim(url))
  /\ UNCHANGED url
  /\ UNCHANGED routeVars

Remove(q, i) == SubSeq(q, 1, i - 1) \o SubSeq(q, i + 1, Len(q))

handleSubmitSettled ==
  /\ \E i \in 1..Len(pending) : \E r \in Settlements(pending[i]) :
        /\ pending' = Remove(pending, i)
        /\ IF ~r.rejected /\ r.ok
           THEN result' = Data(r.data) /\ UNCHANGED error
           ELSE error' = Message(r) /\ UNCHANGED result
  /\ loading' = FALSE
  /\ UNCHANGED url
  /\ UNCHANGED routeVars

NextForm ==
  \/ \E v \in FormInputs : onChange(v)
  \/ handleSubmit
  \/ handleSubmitSettled

SpecForm == Init /\ [][NextForm]_vars

----------------------------------------------------------------------------
(* Properties of POST /api/metadata *)

\* C1: a request whose body url is missing, empty, or not an absolute URL
\* with both a scheme and a host is answered with an {error} body and status
\* 400, and fetch is never invoked during that request.
C1_InvalidInputRejectedWithoutFetch ==
  LET u == NewURL(body.url)
      invalid == body.json /\ (~body.hasUrl \/ body.url = <<>> \/ ~u.ok
                               \/ u.host \in {<<>>, <<"">>})
  IN (pc # "idle" /\ invalid) =>
        /\ fetchCalls = 0
        /\ pc = "done" => (reply.status = 400 /\ <<"error">> \in DOMAIN reply.body)

\* C2: every fetch failure of a validated URL is answered with status 400,
\* never 500: a non-2xx response gives 400 with a message carrying the status
\* code and the reason phrase, and a rejected fetch gives 400 too.
C2_FetchFailureAnswered400 ==
  (pc = "done" /\ (fetched.kind = "rejected"
                   \/ (fetched.kind = "response" /\ fetched.status \notin 200..299))) =>
     /\ reply.status = 400
     /\ <<"error">> \in DOMAIN reply.body
     /\ fetched.kind = "response" =>
          LET m == reply.body[<<"error">>].s
          IN \E i \in 1..Len(m) :
                /\ m[i] = ToString(fetched.status)
                /\ SubSeq(m, i + 2, Len(m)) = fetched.statusText

\* C3: in every success result, url is the post-redirect URL reported by the
\* fetch and extractedAt is the timestamp generated by the pipeline, whatever
\* meta tags the document contains.
C3_UrlAndExtractedAtStamped ==
  (pc = "done" /\ reply.status = 200) =>
     /\ reply.body[<<"url">>] = Str(fetched.url)
     /\ reply.body[<<"extractedAt">>] = Str(toISOString(now))

\* C4: in every success result, a canonical field the rule-based extractor
\* populated keeps the extractor's value; an auxiliary tag under the same key
\* can fill the field only when the extractor produced no value.
C4_ExtractorValueKept ==
  (pc = "done" /\ reply.status = 200) =>
     \A k \in DOMAIN scraped \cap CanonicalFields :
        k \in DOMAIN reply.body /\ reply.body[k] = Str(scraped[k])

\* C5: in every success result, the favicon value and every element of feeds
\* is an absolute URL (it parses on its own with a scheme and a host).
C5_FaviconAndFeedsAbsolute ==
  LET Abs(s) == NewURL(s).ok /\ NewURL(s).host \notin {<<>>, <<"">>}
      b == reply.body
  IN (pc = "done" /\ reply.status = 200) =>
        /\ <<"favicon">> \in DOMAIN b =>
              (b[<<"favicon">>].kind = "str" /\ Abs(b[<<"favicon">>].s))
        /\ <<"feeds">> \in DOMAIN b =>
              IF b[<<"feeds">>].kind = "list"
              THEN \A i \in 1..Len(b[<<"feeds">>].l) : Abs(b[<<"feeds">>].l[i])
              ELSE Abs(b[<<"feeds">>].s)

\* C6: when a favicon href or a feed href of a successfully fetched document
\* cannot be resolved against the final URL, the request still succeeds and
\* that value is dropped from the result; it never becomes an error response.
C6_UnresolvableHrefDropped ==
  LET html == fetched.html
      b == reply.body
      bad == {i \in 1..Len(html) :
                /\ IsIconLink(html[i]) \/ IsShortcutIconLink(html[i])
                   \/ IsAppleTouchIconLink(html[i]) \/ IsFeedLink(html[i])
                /\ Has(html[i], "href") /\ Truthy(html[i].attrs["href"])
                /\ ~NewURLWithBase(html[i].attrs["href"], fetched.url).ok}
  IN (pc = "done" /\ fetched.kind = "response" /\ fetched.status \in 200..299
      /\ bad # {}) =>
        /\ reply.status = 200
        /\ \A i \in bad :
              /\ <<"favicon">> \in DOMAIN b => b[<<"favicon">>].s # html[i].attrs["href"]
              /\ <<"feeds">> \in DOMAIN b =>
                    \A j \in 1..Len(b[<<"feeds">>].l) :
                       b[<<"feeds">>].l[j] # html[i].attrs["href"]

\* C7: in every success result, feeds holds exactly one entry for each rss or
\* atom <link> that has an href, in document order, duplicates kept, each
\* entry resolved against the final URL; with no such link the feeds key is
\* absent.
C7_FeedsExactlyTheFeedLinks ==
  LET links == SelectSeq(fetched.html,
                 LAMBDA e : IsFeedLink(e) /\ Has(e, "href") /\ Truthy(e.attrs["href"]))
      expected == [i \in 1..Len(links) |->
                     Href(NewURLWithBase(links[i].attrs["href"], fetched.url))]
  IN (pc = "done" /\ reply.status = 200) =>
        IF Len(links) = 0
        THEN <<"feeds">> \notin DOMAIN reply.body
        ELSE /\ <<"feeds">> \in DOMAIN reply.body
             /\ reply.body[<<"feeds">>] = List(expected)

\* C8: in every success result, a key produced by more than one meta tag
\* (through property="og:..." or through name) holds the content of the last
\* of those tags in document order that has non-empty content.
C8_LastTagInDocumentOrderWins ==
  LET html == fetched.html
      Tags(k) == {i \in 1..Len(html) :
                    /\ html[i].tag = "meta"
                    /\ \/ IsOgMeta(html[i]) /\ html[i].attrs["property"] = k
                       \/ Has(html[i], "name") /\ html[i].attrs["name"] = k}
      Filled(k) == {i \in Tags(k) :
                      Has(html[i], "content") /\ Truthy(html[i].attrs["content"])}
      Keys == {html[i].attrs["name"] : i \in {j \in 1..Len(html) : Has(html[j], "name")}}
              \cup {html[i].attrs["property"] :
                      i \in {j \in 1..Len(html) : Has(html[j], "property")}}
  IN (pc = "done" /\ reply.status = 200) =>
        \A k \in Keys :
           (Cardinality(Tags(k)) > 1 /\ Filled(k) # {}) =>
              LET last == CHOOSE i \in Filled(k) : \A j \in Filled(k) : j <= i
              IN /\ k \in DOMAIN reply.body
                 /\ reply.body[k] = Str(html[last].attrs["content"])

\* C9 (as stated): in every success result, whenever any rel="icon" link
\* carries a non-empty (resolvable) href the favicon comes from a rel="icon"
\* link, and a lower-priority link is the source exactly when no
\* higher-priority link carries such an href.
C9_AnyIconLinkWins ==
  LET html == fetched.html
      Hrefs(S) == {html[i].attrs["href"] :
                     i \in {j \in S : /\ Has(html[j], "href")
                                      /\ Truthy(html[j].attrs["href"])
                                      /\ NewURLWithBase(html[j].attrs["href"],
                                                        fetched.url).ok}}
      icon == Hrefs({i \in 1..Len(html) : IsIconLink(html[i])})
      shortcut == Hrefs({i \in 1..Len(html) : IsShortcutIconLink(html[i])})
      apple == Hrefs({i \in 1..Len(html) : IsAppleTouchIconLink(html[i])})
      source == IF icon # {} THEN icon ELSE IF shortcut # {} THEN shortcut ELSE apple
  IN (pc = "done" /\ reply.status = 200 /\ source # {}) =>
        /\ <<"favicon">> \in DOMAIN reply.body
        /\ \E h \in source :
              reply.body[<<"favicon">>].s \in {h, Href(NewURLWithBase(h, fetched.url))}

\* C9 (amended): in every success result, the favicon comes from the first
\* rel="icon" link of the document when that link has a non-empty href, else
\* from the first rel="shortcut icon" link when that one has a non-empty href,
\* else from the first rel="apple-touch-icon" link; only the first link of
\* each kind is consulted.
C9_FirstLinkOfEachKindWins ==
  LET html == fetched.html
      FirstHref(S) ==
        IF S = {} THEN <<>>
        ELSE LET i == CHOOSE i \in S : \A j \in S : i <= j
             IN IF Has(html[i], "href") THEN html[i].attrs["href"] ELSE <<>>
      icon == FirstHref({i \in 1..Len(html) : IsIconLink(html[i])})
      shortcut == FirstHref({i \in 1..Len(html) : IsShortcutIconLink(html[i])})
      apple == FirstHref({i \in 1..Len(html) : IsAppleTouchIconLink(html[i])})
      source == IF icon # <<>> THEN icon ELSE IF shortcut # <<>> THEN shortcut ELSE apple
  IN (pc = "done" /\ reply.status = 200 /\ source # <<>>) =>
        /\ <<"favicon">> \in DOMAIN reply.body
        /\ reply.body[<<"favicon">>].s \in {source, Href(NewURLWithBase(source, fetched.url))}

\* C9 witness: a success result for a page whose rel="shortcut icon" link
\* (with an href) precedes its first rel="icon" link (with an href), and the
\* favicon is the resolved href of that rel="icon" link.
C9_Witness ==
  /\ pc = "done" /\ reply.status = 200
  /\ \E i, j \in 1..Len(fetched.html) :
        /\ i < j
        /\ IsShortcutIconLink(fetched.html[i])
        /\ TruthyOpt(AttrOfFirst(<<fetched.html[i]>>, "href"))
        /\ IsIconLink(fetched.html[j])
        /\ TruthyOpt(AttrOfFirst(<<fetched.html[j]>>, "href"))
        /\ <<"favicon">> \in DOMAIN reply.body
        /\ reply.body[<<"favicon">>].s
              = Href(NewURLWithBase(fetched.html[j].attrs["href"], fetched.url))
        /\ reply.body[<<"favicon">>].s # fetched.html[j].attrs["href"]

----------------------------------------------------------------------------
(* Properties of the form component *)

\* C10: loading is false whenever no request is in flight, loading is true
\* whenever a request is in flight, and a non-null result and a non-empty
\* error are never set together.
C10_FormStateConsistent ==
  /\ Len(pending) = 0 => ~loading
  /\ Len(pending) > 0 => loading
  /\ ~(~result.isNull /\ error # <<>>)

====
